---- MODULE Spec2Model ----
(***************************************************************************)
(* A state-machine model of the Sudoku solving core (src/src/sudoku.cpp):  *)
(* the validity predicate isValid, the row-major backtracking solver       *)
(* solveBoard, the MRV cell selector findNextCell, the heuristic solver    *)
(* solveBoardEfficient and the dispatcher solve.                           *)
(*                                                                         *)
(* The recursion of the C++ code is modelled by an explicit call stack:    *)
(* one frame per active invocation, holding its arguments, its loop        *)
(* variable k and the place where it is suspended.                         *)
(***************************************************************************)
EXTENDS Integers, Sequences, FiniteSets

VARIABLES
    BOARD,   \* the int** grid the caller owns; mutated in place
    input,   \* ghost: the grid as the caller passed it
    stack,   \* the call stack, innermost invocation last
    ret,     \* the value being returned to the caller: "none", "true", "false"
    call,    \* which entry point the caller invoked (fn = "none": not yet)
    out      \* the result of the caller's last direct isValid/findNextCell call

vars == <<BOARD, input, stack, ret, call, out>>

----------------------------------------------------------------------------
(* Bounds of the model *)

\* How many of the EditCells the caller may have changed in the input grid.
MaxEdits == 4

----------------------------------------------------------------------------
(* Program constants *)

INT_MAX == 2147483647

Idx == 0..8

----------------------------------------------------------------------------
(* Grids *)

Grid(rows) == [r \in Idx |-> [c \in Idx |-> rows[r + 1][c + 1]]]

AllZero == [r \in Idx |-> [c \in Idx |-> 0]]

\* A complete rule-valid grid from which the caller's puzzles are derived.
Solved ==
    Grid(<< <<1, 2, 3, 4, 5, 6, 7, 8, 9>>,
            <<4, 5, 6, 7, 8, 9, 1, 2, 3>>,
            <<7, 8, 9, 1, 2, 3, 4, 5, 6>>,
            <<2, 1, 4, 3, 6, 5, 8, 9, 7>>,
            <<3, 6, 5, 8, 9, 7, 2, 1, 4>>,
            <<8, 9, 7, 2, 1, 4, 3, 6, 5>>,
            <<5, 3, 1, 6, 4, 2, 9, 7, 8>>,
            <<6, 4, 2, 9, 7, 8, 5, 3, 1>>,
            <<9, 7, 8, 5, 3, 1, 6, 4, 2>> >>)

SetCell(g, r, c, v) == [g EXCEPT ![r][c] = v]

\* The cells in which the caller's grid may differ from Solved, each with the
\* values it may hold instead of its solved digit: 0 (empty) or another digit.
EditCells ==
    << [r |-> 0, c |-> 0, alts |-> {0, 2}],
       [r |-> 0, c |-> 1, alts |-> {0}],
       [r |-> 3, c |-> 0, alts |-> {0}],
       [r |-> 3, c |-> 1, alts |-> {0}],
       [r |-> 3, c |-> 7, alts |-> {0}],
       [r |-> 5, c |-> 1, alts |-> {0}],
       [r |-> 5, c |-> 4, alts |-> {0}] >>

\* The grids obtained from g by changing at most n of the cells
\* EditCells[i], EditCells[i + 1], ...
RECURSIVE Edited(_, _, _)
Edited(g, i, n) ==
    IF i > Len(EditCells) THEN {g}
    ELSE Edited(g, i + 1, n)
            \cup (IF n = 0 THEN {}
                  ELSE UNION {Edited(SetCell(g, EditCells[i].r,
                                             EditCells[i].c, v), i + 1, n - 1) :
                                 v \in EditCells[i].alts})

\* The grids a caller may pass: the empty grid and the edited solved grids.
Inputs == {AllZero} \cup Edited(Solved, 1, MaxEdits)

----------------------------------------------------------------------------
(* isValid: sudoku.cpp 21-45 *)

\* Mutant: the 3x3 block is not checked (lines 35-42 left out).
isValid_NoBlock(B, r, c, k) ==
    ~ \E i \in 0..8 : k = B[r][i] \/ k = B[i][c]

\* Mutant: the column is not checked (line 26 compares the row only).
isValid_NoColumn(B, r, c, k) ==
    LET startRow == 3 * (r \div 3)
        startCol == 3 * (c \div 3)
    IN  /\ ~ \E i \in 0..8 : k = B[r][i]
        /\ ~ \E i \in startRow..(startRow + 2) :
                \E j \in startCol..(startCol + 2) : k = B[i][j]

\* Mutant: the row is not checked (line 26 compares the column only).
isValid_NoRow(B, r, c, k) ==
    LET startRow == 3 * (r \div 3)
        startCol == 3 * (c \div 3)
    IN  /\ ~ \E i \in 0..8 : k = B[i][c]
        /\ ~ \E i \in startRow..(startRow + 2) :
                \E j \in startCol..(startCol + 2) : k = B[i][j]

isValid(B, r, c, k) ==
    LET startRow == 3 * (r \div 3)
        startCol == 3 * (c \div 3)
    IN  /\ ~ \E i \in 0..8 : k = B[r][i] \/ k = B[i][c]
        /\ ~ \E i \in startRow..(startRow + 2) :
                \E j \in startCol..(startCol + 2) : k = B[i][j]

----------------------------------------------------------------------------
(* findNextCell: sudoku.cpp 81-116 *)

\* The option-counting loop of lines 92-97: for (int k = 0; k < 9; k++).
CountOptions(B, r, c) == Cardinality({k \in 0..8 : isValid(B, r, c, k)})

\* What the scan holds: minOptions, bestRow, bestCol, and whether line 105
\* has returned.
ScanStart ==
    [minOptions |-> INT_MAX, bestRow |-> -1, bestCol |-> -1,
     returned |-> FALSE]

\* Mutant: the test BOARD[r][c] == 0 of line 90 is left out.
ScanCell_NoEmptyTest(B, r, c, s) ==
    LET options == CountOptions(B, r, c)
    IN  IF options < s.minOptions
        THEN [minOptions |-> options, bestRow |-> r, bestCol |-> c,
              returned |-> (options = 1)]
        ELSE s

\* Lines 90-107: the body of the loops at cell (r, c).
ScanCell(B, r, c, s) ==
    IF B[r][c] = 0
    THEN LET options == CountOptions(B, r, c)
         IN  IF options < s.minOptions
             THEN [minOptions |-> options, bestRow |-> r, bestCol |-> c,
                   returned |-> (options = 1)]
             ELSE s
    ELSE s

\* Line 88: for (int c = 0; c < 9; c++), from column c on. (The state after
\* the body is bound to its value, next, before the loop goes on.)
RECURSIVE ScanCols(_, _, _, _)
ScanCols(B, r, c, s) ==
    IF c = 9 \/ s.returned THEN s
    ELSE CHOOSE t \in {ScanCols(B, r, c + 1, next) :
                          next \in {ScanCell(B, r, c, s)}} : TRUE

\* Line 86: for (int r = 0; r < 9; r++), from row r on.
RECURSIVE ScanRows(_, _, _)
ScanRows(B, r, s) ==
    IF r = 9 \/ s.returned THEN s
    ELSE CHOOSE t \in {ScanRows(B, r + 1, next) :
                          next \in {ScanCols(B, r, 0, s)}} : TRUE

\* Mutant: the sentinel test of lines 112-113 is left out.
findNextCell_NoSentinel(B) ==
    LET s == ScanRows(B, 0, ScanStart)
    IN  <<s.bestRow, s.bestCol, s.minOptions>>

\* Lines 83-116.
findNextCell(B) ==
    LET s == ScanRows(B, 0, ScanStart)
    IN  IF s.returned THEN <<s.bestRow, s.bestCol, s.minOptions>>
        ELSE IF s.bestRow = -1 /\ s.bestCol = -1 THEN <<-1, -1, 0>>
        ELSE <<s.bestRow, s.bestCol, s.minOptions>>

----------------------------------------------------------------------------
(* The call stack *)

\* A frame: the function, its arguments (r, c: the cell of solveBoard, or
\* the row and col solveBoardEfficient selected; efficient: the flag of
\* solve), the option count findNextCell returned, the loop variable k,
\* where the invocation stands (pc) and, as a ghost, the grid at its entry.
\*   pc = "entry": nothing executed yet
\*   pc = "loop" : at the head of for (k = 1; k <= 9; k++) with this k
\*   pc = "wait" : inside the loop, in the recursive call after placing k
\*   pc = "tail" : in a call whose result is returned as is
Frame(fn, r, c, efficient) ==
    [fn |-> fn, r |-> r, c |-> c, efficient |-> efficient, options |-> 0,
     k |-> 0, pc |-> "entry", entry |-> BOARD]

Top == stack[Len(stack)]

SetTop(f) == [stack EXCEPT ![Len(stack)] = f]

Pop == SubSeq(stack, 1, Len(stack) - 1)

Running == stack /= <<>> /\ ret = "none"

Returning == stack /= <<>> /\ ret /= "none"

Idle == call.fn = "none"

Done == call.fn /= "none" /\ stack = <<>>

NoCall == [fn |-> "none", efficient |-> FALSE]

NoOut == [fn |-> "none"]

----------------------------------------------------------------------------
(* The caller *)

Init ==
    /\ BOARD \in Inputs
    /\ input = BOARD
    /\ stack = <<>>
    /\ ret = "none"
    /\ call = NoCall
    /\ out = NoOut

\* The caller evaluates isValid(BOARD, r, c, k) directly.
CallIsValid ==
    /\ Idle /\ out = NoOut
    /\ \E r \in Idx, c \in Idx, k \in 0..9 :
          out' = [fn |-> "isValid", r |-> r, c |-> c, k |-> k,
                  result |-> isValid(BOARD, r, c, k)]
    /\ UNCHANGED <<BOARD, input, stack, ret, call>>

\* The caller evaluates findNextCell(BOARD) directly.
CallFindNextCell ==
    /\ Idle /\ out = NoOut
    /\ out' = [fn |-> "findNextCell", result |-> findNextCell(BOARD)]
    /\ UNCHANGED <<BOARD, input, stack, ret, call>>

\* The caller invokes solveBoard(BOARD, 0, 0).
CallSolveBoard ==
    /\ Idle
    /\ call' = [fn |-> "solveBoard", efficient |-> FALSE]
    /\ stack' = <<Frame("solveBoard", 0, 0, FALSE)>>
    /\ out' = NoOut
    /\ UNCHANGED <<BOARD, input, ret>>

\* The caller invokes solveBoardEfficient(BOARD).
CallSolveBoardEfficient ==
    /\ Idle
    /\ call' = [fn |-> "solveBoardEfficient", efficient |-> TRUE]
    /\ stack' = <<Frame("solveBoardEfficient", -1, -1, TRUE)>>
    /\ out' = NoOut
    /\ UNCHANGED <<BOARD, input, ret>>

\* The caller invokes solve(BOARD, efficient).
CallSolve ==
    /\ Idle
    /\ \E efficient \in BOOLEAN :
          /\ call' = [fn |-> "solve", efficient |-> efficient]
          /\ stack' = <<Frame("solve", -1, -1, efficient)>>
    /\ out' = NoOut
    /\ UNCHANGED <<BOARD, input, ret>>

\* The caller, holding the result of solve(BOARD, efficient) or of
\* solveBoard(BOARD, 0, 0), keeps it (result and final grid) and invokes, on
\* a grid equal to the one it passed, the solver the result is compared
\* with: solveBoard(BOARD, 0, 0) after solve(BOARD, false),
\* solveBoardEfficient(BOARD) after solve(BOARD, true) or after solveBoard.
CallAgain ==
    /\ Done /\ out = NoOut
    /\ call.fn \in {"solve", "solveBoard"}
    /\ out' = [fn |-> call.fn, efficient |-> call.efficient,
               result |-> ret, BOARD |-> BOARD]
    /\ BOARD' = input
    /\ ret' = "none"
    /\ IF call.fn = "solve" /\ ~ call.efficient
       THEN /\ call' = [fn |-> "solveBoard", efficient |-> FALSE]
            /\ stack' = <<[Frame("solveBoard", 0, 0, FALSE)
                              EXCEPT !.entry = input]>>
       ELSE /\ call' = [fn |-> "solveBoardEfficient", efficient |-> TRUE]
            /\ stack' = <<[Frame("solveBoardEfficient", -1, -1, TRUE)
                              EXCEPT !.entry = input]>>
    /\ UNCHANGED input

----------------------------------------------------------------------------
(* solveBoard: sudoku.cpp 47-79 *)

\* Lines 50-51: if (r == 9) return true.
SB_Solved ==
    /\ Running /\ Top.fn = "solveBoard" /\ Top.pc = "entry"
    /\ Top.r = 9
    /\ stack' = Pop
    /\ ret' = "true"
    /\ UNCHANGED <<BOARD, input, call, out>>

\* Lines 54-55: if (c == 9) return solveBoard(BOARD, r + 1, 0).
SB_NextRow ==
    /\ Running /\ Top.fn = "solveBoard" /\ Top.pc = "entry"
    /\ Top.r /= 9 /\ Top.c = 9
    /\ stack' = Append(SetTop([Top EXCEPT !.pc = "tail"]),
                       Frame("solveBoard", Top.r + 1, 0, FALSE))
    /\ UNCHANGED <<BOARD, input, ret, call, out>>

\* Mutant: the skip of line 59 recurses to (r, c) instead of (r, c + 1).
SB_SkipFilled_NoAdvance ==
    /\ Running /\ Top.fn = "solveBoard" /\ Top.pc = "entry"
    /\ Top.r /= 9 /\ Top.c /= 9
    /\ BOARD[Top.r][Top.c] /= 0
    /\ stack' = Append(SetTop([Top EXCEPT !.pc = "tail"]),
                       Frame("solveBoard", Top.r, Top.c, FALSE))
    /\ UNCHANGED <<BOARD, input, ret, call, out>>

\* Lines 58-59: if (BOARD[r][c] != 0) return solveBoard(BOARD, r, c + 1).
SB_SkipFilled ==
    /\ Running /\ Top.fn = "solveBoard" /\ Top.pc = "entry"
    /\ Top.r /= 9 /\ Top.c /= 9
    /\ BOARD[Top.r][Top.c] /= 0
    /\ stack' = Append(SetTop([Top EXCEPT !.pc = "tail"]),
                       Frame("solveBoard", Top.r, Top.c + 1, FALSE))
    /\ UNCHANGED <<BOARD, input, ret, call, out>>

\* Mutant: the test BOARD[r][c] != 0 of line 58 is left out, so the loop
\* also runs on a filled cell.
SB_EnterLoop_NoEmptyTest ==
    /\ Running /\ Top.fn = "solveBoard" /\ Top.pc = "entry"
    /\ Top.r /= 9 /\ Top.c /= 9
    /\ stack' = SetTop([Top EXCEPT !.pc = "loop", !.k = 1])
    /\ UNCHANGED <<BOARD, input, ret, call, out>>

\* Line 62: the loop starts, int k = 1.
SB_EnterLoop ==
    /\ Running /\ Top.fn = "solveBoard" /\ Top.pc = "entry"
    /\ Top.r /= 9 /\ Top.c /= 9
    /\ BOARD[Top.r][Top.c] = 0
    /\ stack' = SetTop([Top EXCEPT !.pc = "loop", !.k = 1])
    /\ UNCHANGED <<BOARD, input, ret, call, out>>

\* Lines 64-69: k is valid: place it and recurse to (r, c + 1).
SB_Place ==
    /\ Running /\ Top.fn = "solveBoard" /\ Top.pc = "loop"
    /\ Top.k <= 9
    /\ isValid(BOARD, Top.r, Top.c, Top.k)
    /\ BOARD' = SetCell(BOARD, Top.r, Top.c, Top.k)
    /\ stack' = Append(SetTop([Top EXCEPT !.pc = "wait"]),
                       [Frame("solveBoard", Top.r, Top.c + 1, FALSE)
                           EXCEPT !.entry = BOARD'])
    /\ UNCHANGED <<input, ret, call, out>>

\* Lines 62, 64: k is not valid: k++.
SB_Reject ==
    /\ Running /\ Top.fn = "solveBoard" /\ Top.pc = "loop"
    /\ Top.k <= 9
    /\ ~ isValid(BOARD, Top.r, Top.c, Top.k)
    /\ stack' = SetTop([Top EXCEPT !.k = Top.k + 1])
    /\ UNCHANGED <<BOARD, input, ret, call, out>>

\* Line 78: the loop is over: return false.
SB_Exhausted ==
    /\ Running /\ Top.fn = "solveBoard" /\ Top.pc = "loop"
    /\ Top.k > 9
    /\ stack' = Pop
    /\ ret' = "false"
    /\ UNCHANGED <<BOARD, input, call, out>>

\* Lines 55, 59: the result of the call is returned as is.
SB_TailReturn ==
    /\ Returning /\ Top.fn = "solveBoard" /\ Top.pc = "tail"
    /\ stack' = Pop
    /\ UNCHANGED <<BOARD, input, ret, call, out>>

\* Mutant: the return true of line 70 is left out: after a successful
\* recursive call the cell is reset and the loop goes on.
SB_Found_NoReturn ==
    /\ Returning /\ Top.fn = "solveBoard" /\ Top.pc = "wait"
    /\ ret = "true"
    /\ BOARD' = SetCell(BOARD, Top.r, Top.c, 0)
    /\ stack' = SetTop([Top EXCEPT !.pc = "loop", !.k = Top.k + 1])
    /\ ret' = "none"
    /\ UNCHANGED <<input, call, out>>

\* Lines 69-70: the recursive call returned true: return true.
SB_Found ==
    /\ Returning /\ Top.fn = "solveBoard" /\ Top.pc = "wait"
    /\ ret = "true"
    /\ stack' = Pop
    /\ UNCHANGED <<BOARD, input, ret, call, out>>

\* Mutant: the reset BOARD[r][c] = 0 of line 73 is left out.
SB_Backtrack_NoReset ==
    /\ Returning /\ Top.fn = "solveBoard" /\ Top.pc = "wait"
    /\ ret = "false"
    /\ stack' = SetTop([Top EXCEPT !.pc = "loop", !.k = Top.k + 1])
    /\ ret' = "none"
    /\ UNCHANGED <<BOARD, input, call, out>>

\* Lines 69, 73, 62: the recursive call returned false: BOARD[r][c] = 0, k++.
SB_Backtrack ==
    /\ Returning /\ Top.fn = "solveBoard" /\ Top.pc = "wait"
    /\ ret = "false"
    /\ BOARD' = SetCell(BOARD, Top.r, Top.c, 0)
    /\ stack' = SetTop([Top EXCEPT !.pc = "loop", !.k = Top.k + 1])
    /\ ret' = "none"
    /\ UNCHANGED <<input, call, out>>

solveBoard ==
    \/ SB_Solved
    \/ SB_NextRow
    \/ SB_SkipFilled
    \/ SB_EnterLoop
    \/ SB_Place
    \/ SB_Reject
    \/ SB_Exhausted
    \/ SB_TailReturn
    \/ SB_Found
    \/ SB_Backtrack

----------------------------------------------------------------------------
(* solveBoardEfficient: sudoku.cpp 118-138 *)

\* Lines 120-123: findNextCell found no empty cell: return true.
SBE_Solved ==
    /\ Running /\ Top.fn = "solveBoardEfficient" /\ Top.pc = "entry"
    /\ LET t == findNextCell(BOARD)
       IN  t[1] = -1 /\ t[2] = -1
    /\ stack' = Pop
    /\ ret' = "true"
    /\ UNCHANGED <<BOARD, input, call, out>>

\* Lines 120-125: findNextCell selected (row, col); the loop starts, k = 1.
SBE_Select ==
    /\ Running /\ Top.fn = "solveBoardEfficient" /\ Top.pc = "entry"
    /\ LET t == findNextCell(BOARD)
       IN  /\ ~ (t[1] = -1 /\ t[2] = -1)
           /\ stack' = SetTop([Top EXCEPT !.r = t[1], !.c = t[2],
                                          !.options = t[3],
                                          !.pc = "loop", !.k = 1])
    /\ UNCHANGED <<BOARD, input, ret, call, out>>

\* Lines 127-131: k is valid: place it and recurse.
SBE_Place ==
    /\ Running /\ Top.fn = "solveBoardEfficient" /\ Top.pc = "loop"
    /\ Top.k <= 9
    /\ isValid(BOARD, Top.r, Top.c, Top.k)
    /\ BOARD' = SetCell(BOARD, Top.r, Top.c, Top.k)
    /\ stack' = Append(SetTop([Top EXCEPT !.pc = "wait"]),
                       [Frame("solveBoardEfficient", -1, -1, TRUE)
                           EXCEPT !.entry = BOARD'])
    /\ UNCHANGED <<input, ret, call, out>>

\* Mutant: an invalid k makes the function return false (a return false
\* inside the loop instead of after it).
SBE_Reject_ReturnsFalse ==
    /\ Running /\ Top.fn = "solveBoardEfficient" /\ Top.pc = "loop"
    /\ Top.k <= 9
    /\ ~ isValid(BOARD, Top.r, Top.c, Top.k)
    /\ stack' = Pop
    /\ ret' = "false"
    /\ UNCHANGED <<BOARD, input, call, out>>

\* Lines 125, 127: k is not valid: k++.
SBE_Reject ==
    /\ Running /\ Top.fn = "solveBoardEfficient" /\ Top.pc = "loop"
    /\ Top.k <= 9
    /\ ~ isValid(BOARD, Top.r, Top.c, Top.k)
    /\ stack' = SetTop([Top EXCEPT !.k = Top.k + 1])
    /\ UNCHANGED <<BOARD, input, ret, call, out>>

\* Mutant: line 137 returns true instead of false.
SBE_Exhausted_ReturnsTrue ==
    /\ Running /\ Top.fn = "solveBoardEfficient" /\ Top.pc = "loop"
    /\ Top.k > 9
    /\ stack' = Pop
    /\ ret' = "true"
    /\ UNCHANGED <<BOARD, input, call, out>>

\* Line 137: the loop is over: return false.
SBE_Exhausted ==
    /\ Running /\ Top.fn = "solveBoardEfficient" /\ Top.pc = "loop"
    /\ Top.k > 9
    /\ stack' = Pop
    /\ ret' = "false"
    /\ UNCHANGED <<BOARD, input, call, out>>

\* Lines 131-132: the recursive call returned true: return true.
SBE_Found ==
    /\ Returning /\ Top.fn = "solveBoardEfficient" /\ Top.pc = "wait"
    /\ ret = "true"
    /\ stack' = Pop
    /\ UNCHANGED <<BOARD, input, ret, call, out>>

\* Mutant: after a failed recursive call the loop does not advance k.
SBE_Backtrack_NoAdvance ==
    /\ Returning /\ Top.fn = "solveBoardEfficient" /\ Top.pc = "wait"
    /\ ret = "false"
    /\ BOARD' = SetCell(BOARD, Top.r, Top.c, 0)
    /\ stack' = SetTop([Top EXCEPT !.pc = "loop"])
    /\ ret' = "none"
    /\ UNCHANGED <<input, call, out>>

\* Lines 131, 134, 125: the recursive call returned false:
\* BOARD[row][col] = 0, k++.
SBE_Backtrack ==
    /\ Returning /\ Top.fn = "solveBoardEfficient" /\ Top.pc = "wait"
    /\ ret = "false"
    /\ BOARD' = SetCell(BOARD, Top.r, Top.c, 0)
    /\ stack' = SetTop([Top EXCEPT !.pc = "loop", !.k = Top.k + 1])
    /\ ret' = "none"
    /\ UNCHANGED <<input, call, out>>

solveBoardEfficient ==
    \/ SBE_Solved
    \/ SBE_Select
    \/ SBE_Place
    \/ SBE_Reject
    \/ SBE_Exhausted
    \/ SBE_Found
    \/ SBE_Backtrack

----------------------------------------------------------------------------
(* solve: sudoku.cpp 140-144 *)

\* Line 143, efficient: return solveBoardEfficient(board).
Solve_Efficient ==
    /\ Running /\ Top.fn = "solve" /\ Top.pc = "entry"
    /\ Top.efficient
    /\ stack' = Append(SetTop([Top EXCEPT !.pc = "tail"]),
                       Frame("solveBoardEfficient", -1, -1, TRUE))
    /\ UNCHANGED <<BOARD, input, ret, call, out>>

\* Mutant: line 143 calls solveBoardEfficient whatever the flag.
Solve_Plain_CallsEfficient ==
    /\ Running /\ Top.fn = "solve" /\ Top.pc = "entry"
    /\ ~ Top.efficient
    /\ stack' = Append(SetTop([Top EXCEPT !.pc = "tail"]),
                       Frame("solveBoardEfficient", -1, -1, TRUE))
    /\ UNCHANGED <<BOARD, input, ret, call, out>>

\* Line 143, not efficient: return solveBoard(board, 0, 0).
Solve_Plain ==
    /\ Running /\ Top.fn = "solve" /\ Top.pc = "entry"
    /\ ~ Top.efficient
    /\ stack' = Append(SetTop([Top EXCEPT !.pc = "tail"]),
                       Frame("solveBoard", 0, 0, FALSE))
    /\ UNCHANGED <<BOARD, input, ret, call, out>>

\* Line 143: the result of the call is returned as is.
Solve_Return ==
    /\ Returning /\ Top.fn = "solve" /\ Top.pc = "tail"
    /\ stack' = Pop
    /\ UNCHANGED <<BOARD, input, ret, call, out>>

solve ==
    \/ Solve_Efficient
    \/ Solve_Plain
    \/ Solve_Return

----------------------------------------------------------------------------
(* The specification *)

Next ==
    \/ CallIsValid
    \/ CallFindNextCell
    \/ CallSolveBoard
    \/ CallSolveBoardEfficient
    \/ CallSolve
    \/ CallAgain
    \/ solveBoard
    \/ solveBoardEfficient
    \/ solve

Spec == Init /\ [][Next]_vars

\* The runs of the two solvers called directly. The program is sequential:
\* a call that has been made takes its next step.
FairNext ==
    \/ CallSolveBoard
    \/ CallSolveBoardEfficient
    \/ solveBoard
    \/ solveBoardEfficient

FairSpec ==
    Init /\ [][FairNext]_vars /\ WF_vars(solveBoard \/ solveBoardEfficient)

----------------------------------------------------------------------------
(* The rules of Sudoku, stated independently of the code *)

Cells == Idx \X Idx

Digits == 1..9

RowOf(r) == {<<r, j>> : j \in Idx}

ColOf(c) == {<<i, c>> : i \in Idx}

BlockOf(r, c) == {x \in Cells : x[1] \div 3 = r \div 3 /\ x[2] \div 3 = c \div 3}

Units ==
    {RowOf(r) : r \in Idx} \cup {ColOf(c) : c \in Idx}
        \cup {BlockOf(3 * i, 3 * j) : i \in 0..2, j \in 0..2}

At(g, x) == g[x[1]][x[2]]

Empties(g) == {x \in Cells : At(g, x) = 0}

\* k occurs in row r, in column c or in the block of (r, c).
Occurs(g, r, c, k) ==
    \E x \in RowOf(r) \cup ColOf(c) \cup BlockOf(r, c) : At(g, x) = k

\* Every row, column and block holds each digit 1..9 exactly once.
RuleValid(g) ==
    \A u \in Units : \A d \in Digits :
        Cardinality({x \in u : At(g, x) = d}) = 1

\* h is a rule-valid completion of g.
IsCompletion(h, g) ==
    /\ RuleValid(h)
    /\ \A x \in Cells : At(g, x) /= 0 => At(h, x) = At(g, x)

\* All rule-valid completions of g (for grids with few empty cells).
RECURSIVE Completions(_)
Completions(g) ==
    IF Empties(g) = {}
    THEN IF RuleValid(g) THEN {g} ELSE {}
    ELSE LET x == CHOOSE y \in Empties(g) : TRUE
         IN  UNION {Completions(SetCell(g, x[1], x[2], d)) :
                        d \in {e \in Digits : ~ Occurs(g, x[1], x[2], e)}}

\* Solved with the digits 1 and 2 exchanged in rows 0, 3 of columns 0, 1:
\* a second complete rule-valid grid.
Swapped ==
    SetCell(SetCell(SetCell(SetCell(Solved, 0, 0, 2), 0, 1, 1), 3, 0, 1),
            3, 1, 2)

\* g has a rule-valid completion (Solved itself, when it completes g).
HasCompletion(g) == IsCompletion(Solved, g) \/ Completions(g) /= {}

\* g has exactly one rule-valid completion (not so when both Solved and
\* Swapped complete it).
UniqueCompletion(g) ==
    /\ ~ (IsCompletion(Solved, g) /\ IsCompletion(Swapped, g))
    /\ Cardinality(Completions(g)) = 1

\* The number of digits 1..9 that isValid accepts at (r, c).
LegalDigits(g, r, c) == Cardinality({k \in Digits : isValid(g, r, c, k)})

\* The first cell, in row-major order, of a non-empty set of cells.
FirstCell(S) ==
    CHOOSE x \in S : \A y \in S : 9 * x[1] + x[2] <= 9 * y[1] + y[2]

\* The top frame is at a point where it returns false.
ReturnsFalse ==
    /\ stack /= <<>>
    /\ \/ ret = "none" /\ Top.pc = "loop" /\ Top.k > 9
       \/ ret = "false" /\ Top.pc = "tail"

----------------------------------------------------------------------------
(* The claims *)

\* C1 (as stated): whenever solveBoard(grid,0,0), solveBoardEfficient(grid)
\* or solve returns true, every row, column and 3x3 block of the resulting
\* grid contains each digit 1..9 exactly once, whatever the input grid.
C1_TrueImpliesRuleValid ==
    Done /\ ret = "true" => RuleValid(BOARD)

\* C2 (as stated): for every input grid without a rule-valid completion the
\* solvers return false.
C2_NoCompletionReturnsFalse ==
    Done /\ ~ HasCompletion(input) => ret = "false"

\* C3: whenever an invocation, top-level or nested, returns false, the grid
\* equals the grid at that invocation's entry; when the top-level call has
\* returned false the grid equals the caller's input grid.
C3_FalseRestoresGrid ==
    /\ ReturnsFalse => BOARD = Top.entry
    /\ Done /\ ret = "false" => BOARD = input

\* C3 witness: a top-level solveBoardEfficient call has returned false
\* although the cell it selected had a digit to place: the digit was placed,
\* the nested call failed, and the cell was reset.
C3_Witness ==
    /\ Done /\ ret = "false" /\ call.fn = "solveBoardEfficient"
    /\ LET t == findNextCell(input)
       IN  \E k \in Digits : isValid(input, t[1], t[2], k)
    /\ BOARD = input

\* C4: in every state of a solve, every cell that was non-zero in the input
\* grid holds its input value.
C4_GivenCellsKept ==
    \A x \in Cells : At(input, x) /= 0 => At(BOARD, x) = At(input, x)

\* C4 witness: the solver is writing to a grid that has pre-filled cells
\* (some empty cell holds a digit now, with further empty cells left).
C4_Witness ==
    /\ Running
    /\ \E x \in Cells : At(input, x) /= 0
    /\ \E x \in Cells : At(input, x) = 0 /\ At(BOARD, x) /= 0
    /\ \E x \in Cells : At(BOARD, x) = 0

\* C5: for every input grid with a rule-valid completion the solvers return
\* true and leave a rule-valid completion of the input.
C5_SolvableIsSolved ==
    Done => \/ ret = "true" /\ IsCompletion(BOARD, input)
            \/ ~ HasCompletion(input)

\* C5 witness: solveBoardEfficient has returned true on the all-zero grid.
C5_Witness ==
    /\ Done /\ ret = "true" /\ call.fn = "solveBoardEfficient"
    /\ input = AllZero
    /\ RuleValid(BOARD)

\* C6: for every input grid with exactly one rule-valid completion the
\* solvers return true and leave the grid equal to that completion.
C6_UniqueCompletionFound ==
    Done /\ UniqueCompletion(input) =>
        ret = "true" /\ Completions(input) = {BOARD}

\* C6 witness: a solve of a grid with several empty cells and exactly one
\* completion has returned.
C6_Witness ==
    /\ Done /\ ret = "true"
    /\ Cardinality(Empties(input)) >= 3
    /\ UniqueCompletion(input)

\* C7: isValid(grid,r,c,k) is false if and only if k occurs in row r, in
\* column c or in the 3x3 block of (r,c), and it leaves the grid as it was.
C7_IsValidIffAbsent ==
    out.fn = "isValid" =>
        /\ out.result = ~ Occurs(BOARD, out.r, out.c, out.k)
        /\ BOARD = input

\* C7 witness: isValid returned false for a digit 1..9 that occurs in the
\* block of (r,c) but neither in row r nor in column c.
C7_Witness ==
    /\ out.fn = "isValid" /\ out.result = FALSE /\ out.k \in Digits
    /\ \A x \in RowOf(out.r) \cup ColOf(out.c) : At(BOARD, x) /= out.k

\* C8 (as stated): on a grid with an empty cell, the optionCount findNextCell
\* returns is the number of digits 1..9 isValid accepts at the returned cell.
C8_OptionCountIsLegalDigits ==
    out.fn = "findNextCell" /\ Empties(BOARD) /= {} =>
        out.result[3] = LegalDigits(BOARD, out.result[1], out.result[2])

\* C9 (as stated): on a grid with an empty cell, findNextCell returns the
\* first cell, in row-major order, among the empty cells with the fewest
\* legal digits 1..9.
C9_ReturnsFirstMinimalCell ==
    out.fn = "findNextCell" /\ Empties(BOARD) /= {} =>
        LET least == {x \in Empties(BOARD) :
                        \A y \in Empties(BOARD) :
                            LegalDigits(BOARD, x[1], x[2])
                                <= LegalDigits(BOARD, y[1], y[2])}
        IN  <<out.result[1], out.result[2]>> = FirstCell(least)

\* C10 (as stated): on a grid in which some empty cell has exactly one legal
\* digit 1..9, findNextCell returns optionCount 1.
C10_SingleOptionReturnsOne ==
    /\ out.fn = "findNextCell"
    /\ \E x \in Empties(BOARD) : LegalDigits(BOARD, x[1], x[2]) = 1
    => out.result[3] = 1

\* The number of active invocations of fn.
Depth(fn) == Cardinality({i \in 1..Len(stack) : stack[i].fn = fn})

\* C11 (as stated): an invocation of solveBoardEfficient whose findNextCell
\* call returned a cell with optionCount 0 places no digit in that cell (it
\* is never suspended in a recursive call made after a placement), so that
\* its loop runs out and it returns false.
C11_ZeroOptionsFails ==
    \A i \in 1..Len(stack) :
        /\ stack[i].fn = "solveBoardEfficient"
        /\ stack[i].pc \in {"loop", "wait"}
        /\ stack[i].options = 0
        => stack[i].pc = "loop"

\* C12: findNextCell returns the sentinel (-1,-1,0) if and only if the grid
\* has no empty cell, and otherwise an empty cell within 0..8 x 0..8; an
\* invocation of solveBoardEfficient returns true without writing exactly
\* when the grid at its entry has no empty cell: at its entry it takes the
\* sentinel branch iff no cell is empty, an invocation past its entry had
\* selected an empty cell, and a top-level true leaves the grid as passed
\* iff the grid passed had no empty cell.
C12_SentinelIffFull ==
    /\ out.fn = "findNextCell" =>
          IF Empties(BOARD) = {}
          THEN out.result = <<-1, -1, 0>>
          ELSE /\ out.result[1] \in Idx /\ out.result[2] \in Idx
               /\ BOARD[out.result[1]][out.result[2]] = 0
    /\ \A i \in 1..Len(stack) :
          stack[i].fn = "solveBoardEfficient" =>
              IF stack[i].pc = "entry"
              THEN /\ BOARD = stack[i].entry
                   /\ findNextCell(BOARD) = <<-1, -1, 0>>
                          <=> Empties(BOARD) = {}
              ELSE /\ stack[i].r \in Idx /\ stack[i].c \in Idx
                   /\ stack[i].entry[stack[i].r][stack[i].c] = 0
    /\ Done /\ call.fn = "solveBoardEfficient" /\ ret = "true" =>
          (BOARD = input <=> Empties(input) = {})

\* C12 witness: solveBoardEfficient, called on a grid without an empty cell,
\* has returned true and the grid is as it was passed.
C12_Witness ==
    /\ Done /\ call.fn = "solveBoardEfficient" /\ ret = "true"
    /\ Empties(input) = {}
    /\ BOARD = input

\* C13 (as stated): at most 81 invocations of solveBoard, and at most 81 of
\* solveBoardEfficient, are active at the same time.
C13_DepthAtMost81 ==
    Depth("solveBoard") <= 81 /\ Depth("solveBoardEfficient") <= 81

\* C13 (amended): at most 91 invocations of solveBoard (one per position
\* (r, c) with r in 0..8 and c in 0..9, and one for r = 9), and at most 82 of
\* solveBoardEfficient (one per empty cell, and one that finds none), are
\* active at the same time.
C13_DepthBound ==
    Depth("solveBoard") <= 91 /\ Depth("solveBoardEfficient") <= 82

\* C13 witness: 91 invocations of solveBoard are active on a grid that had
\* empty cells.
C13_Witness ==
    Depth("solveBoard") = 91 /\ Empties(input) /= {}

\* The cells that share a row, a column or a block with x.
Peers(x) == (RowOf(x[1]) \cup ColOf(x[2]) \cup BlockOf(x[1], x[2])) \ {x}

\* No digit 1..9 occurs twice in a row, a column or a block of g: no cell
\* holding a digit has that digit further right in its row, further down in
\* its column, or in a lower row of its block.
Consistent(g) ==
    \A r \in Idx : \A c \in Idx :
        LET v == g[r][c]
        IN  v \in Digits =>
                /\ \A j \in (c + 1)..8 : g[r][j] /= v
                /\ \A i \in (r + 1)..8 : g[i][c] /= v
                /\ \A i \in (r + 1)..(3 * (r \div 3) + 2) :
                      \A j \in (3 * (c \div 3))..(3 * (c \div 3) + 2) :
                          g[i][j] /= v

\* C14: solve(grid, true) returns the same boolean and leaves the same grid
\* as solveBoardEfficient(grid) called on the same input, and
\* solve(grid, false) (the flag's default) the same as solveBoard(grid,0,0);
\* the dispatcher writes nothing of its own (the grid it leaves is the grid
\* the solver leaves).
C14_SolveDelegates ==
    Done /\ out.fn = "solve" =>
        /\ call.fn = (IF out.efficient THEN "solveBoardEfficient"
                                       ELSE "solveBoard")
        /\ ret = out.result
        /\ BOARD = out.BOARD

\* C14 witness: solve(grid, true) and then solveBoardEfficient(grid) have
\* returned true on the all-zero grid, which has many completions.
C14_Witness ==
    /\ Done /\ out.fn = "solve" /\ out.efficient
    /\ out.result = "true"
    /\ input = AllZero

\* C15: if the input grid is consistent, every grid reached during a solve
\* is consistent (stated by contraposition: a grid reached during a solve is
\* inconsistent only if the input grid was).
C15_ConsistencyKept ==
    call.fn /= "none" /\ ~ Consistent(BOARD) => ~ Consistent(input)

\* C15 witness: a solve of a consistent grid is under way, with several
\* tentative placements on the grid and empty cells left.
C15_Witness ==
    /\ Running /\ Consistent(input)
    /\ Cardinality({x \in Empties(input) : At(BOARD, x) /= 0}) >= 3
    /\ Empties(BOARD) /= {}

\* C16: when a solver has returned true, consistent input or not, the grid
\* has no empty cell and every cell that was empty in the input holds a
\* digit 1..9 that differs from every other cell of its row, column and
\* block.
C16_TrueFillsDistinct ==
    Done /\ ret = "true" =>
        /\ Empties(BOARD) = {}
        /\ \A x \in Empties(input) :
              /\ At(BOARD, x) \in Digits
              /\ \A y \in Peers(x) : At(BOARD, y) /= At(BOARD, x)

\* C16 witness: a solver has returned true on an inconsistent grid that had
\* an empty cell.
C16_Witness ==
    /\ Done /\ ret = "true"
    /\ ~ Consistent(input)
    /\ Empties(input) /= {}

\* a is not after b in lexicographic order, cells read in row-major order.
LexLeq(a, b) ==
    \/ a = b
    \/ LET d == FirstCell({x \in Cells : At(a, x) /= At(b, x)})
       IN  At(a, d) < At(b, d)

\* C17: on every input grid, inconsistent ones included, solveBoard(grid,0,0)
\* and solveBoardEfficient(grid), run one after the other on the same input,
\* return the same boolean.
C17_SameBoolean ==
    Done /\ out.fn = "solveBoard" =>
        call.fn = "solveBoardEfficient" /\ ret = out.result

\* C17 witness: both solvers have returned false on a grid with an empty
\* cell.
C17_Witness ==
    /\ Done /\ out.fn = "solveBoard"
    /\ out.result = "false" /\ ret = "false"
    /\ Empties(input) /= {}

\* C18: on a consistent input grid with a rule-valid completion (here: one
\* derived from Solved, whose completions can be listed), solveBoard(grid,0,0)
\* leaves the completion that is least in lexicographic row-major order.
C18_LeastCompletion ==
    /\ Done /\ call.fn = "solveBoard"
    /\ Cardinality(Empties(input)) <= Len(EditCells)
    /\ Consistent(input)
    /\ Completions(input) /= {}
    => /\ BOARD \in Completions(input)
       /\ \A h \in Completions(input) : LexLeq(BOARD, h)

\* C18 witness: solveBoard has returned on a consistent grid with more than
\* one completion.
C18_Witness ==
    /\ Done /\ call.fn = "solveBoard"
    /\ Cardinality(Empties(input)) <= Len(EditCells)
    /\ Consistent(input)
    /\ Cardinality(Completions(input)) >= 2

\* C19: every call of a solver eventually returns true or false (so the
\* run, which is deterministic, never comes back to a configuration of call
\* stack and grid it has been in).
C19_Terminates ==
    (call.fn /= "none") ~> (Done /\ ret \in {"true", "false"})

\* C19 witness: solveBoard(grid,0,0) has returned on the all-zero grid.
C19_Witness ==
    Done /\ call.fn = "solveBoard" /\ input = AllZero

====
